---------------------------- MODULE Spec2Model ----------------------------
(***************************************************************************)
(* ora-reflector: reflection of an Oracle catalog into Rust structs.       *)
(*                                                                         *)
(* Text is modelled as a sequence of one-character strings, so that        *)
(* str.lower, str.upper, str.capitalize, str.split and str.join act on     *)
(* characters as they do in Python (ASCII letters).  An optional integer   *)
(* is None (the empty tuple) or a one-element tuple <<n>>.                 *)
(***************************************************************************)
EXTENDS Integers, Sequences, FiniteSets, TLC

VARIABLES
    pc,             \* position of the process in main.py
    run,            \* number of the current invocation of the program
    catalog,        \* the tables of the database (all_tables / all_tab_columns)
    conn,           \* result of connect_to_oracle_db()
    connects,       \* oracledb.connect calls of this invocation
    exc,            \* the exception raised in this invocation, or None
    exit_status,    \* exit status of the process, or None while it runs
    diagnostic,     \* what the process printed about a failure
    queries,        \* cursor.execute calls of this invocation, in order
    tables,         \* create_rust_structs: tables
    idx,            \* create_rust_structs: idx of the for loop
    columns,        \* create_rust_structs: columns of the table in hand
    fetched,        \* the column lists fetched so far, in order
    rust_structs,   \* create_rust_structs: rust_structs
    file,           \* content of generated_structs/db_structs.rs, or None
    writes,         \* writes of the file by this invocation
    history,        \* per completed generation: what was fetched and written
    call,           \* arguments of a direct call of a pure function
    ret             \* its result

vars == <<pc, run, catalog, conn, connects, exc, exit_status, diagnostic,
          queries, tables, idx, columns, fetched, rust_structs, file, writes,
          history, call, ret>>

None == <<>>
Some(n) == <<n>>

Last(s) == s[Len(s)]

(***************************************************************************)
(* Python str methods, on sequences of characters                          *)
(***************************************************************************)
ascii_uppercase ==
    <<"A","B","C","D","E","F","G","H","I","J","K","L","M",
      "N","O","P","Q","R","S","T","U","V","W","X","Y","Z">>

ascii_lowercase ==
    <<"a","b","c","d","e","f","g","h","i","j","k","l","m",
      "n","o","p","q","r","s","t","u","v","w","x","y","z">>

chr_lower(c) ==
    IF \E i \in DOMAIN ascii_uppercase : ascii_uppercase[i] = c
    THEN ascii_lowercase[CHOOSE i \in DOMAIN ascii_uppercase : ascii_uppercase[i] = c]
    ELSE c

chr_upper(c) ==
    IF \E i \in DOMAIN ascii_lowercase : ascii_lowercase[i] = c
    THEN ascii_uppercase[CHOOSE i \in DOMAIN ascii_lowercase : ascii_lowercase[i] = c]
    ELSE c

str_lower(s) == [i \in 1..Len(s) |-> chr_lower(s[i])]

str_upper(s) == [i \in 1..Len(s) |-> chr_upper(s[i])]

\* str.capitalize: first character upper-cased, the rest lower-cased
str_capitalize(s) ==
    [i \in 1..Len(s) |-> IF i = 1 THEN chr_upper(s[i]) ELSE chr_lower(s[i])]

\* str.split(sep) with a one-character separator: empty segments are kept
RECURSIVE str_split(_, _)
str_split(s, sep) ==
    IF \E i \in 1..Len(s) : s[i] = sep
    THEN LET k == CHOOSE i \in 1..Len(s) :
                    /\ s[i] = sep
                    /\ \A j \in 1..(i - 1) : s[j] # sep
         IN <<SubSeq(s, 1, k - 1)>> \o str_split(SubSeq(s, k + 1, Len(s)), sep)
    ELSE <<s>>

\* sep.join(parts)
RECURSIVE str_join(_, _)
str_join(sep, parts) ==
    IF Len(parts) = 0 THEN <<>>
    ELSE IF Len(parts) = 1 THEN parts[1]
    ELSE parts[1] \o sep \o str_join(sep, Tail(parts))

\* needle in s
str_contains(s, needle) ==
    \E i \in 1..(Len(s) - Len(needle) + 1) :
        SubSeq(s, i, i + Len(needle) - 1) = needle

(***************************************************************************)
(* map_oracle_type_to_rust                                                 *)
(***************************************************************************)
S_NUMBER == <<"N","U","M","B","E","R">>
S_VARCHAR2 == <<"V","A","R","C","H","A","R","2">>
S_CHAR == <<"C","H","A","R">>
S_DATE == <<"D","A","T","E">>
S_TIMESTAMP == <<"T","I","M","E","S","T","A","M","P">>
S_CLOB == <<"C","L","O","B">>
S_BLOB == <<"B","L","O","B">>

R_String == <<"S","t","r","i","n","g">>
R_NaiveDateTime ==
    <<"c","h","r","o","n","o",":",":","N","a","i","v","e","D","a","t","e","T","i","m","e">>
R_VecU8 == <<"V","e","c","<","u","8",">">>
R_i64 == <<"i","6","4">>
R_i32 == <<"i","3","2">>
R_f32 == <<"f","3","2">>
R_f64 == <<"f","6","4">>

type_mapping ==
    { <<S_VARCHAR2, R_String>>,
      <<S_CHAR, R_String>>,
      <<S_DATE, R_NaiveDateTime>>,
      <<S_TIMESTAMP, R_NaiveDateTime>>,
      <<S_CLOB, R_String>>,
      <<S_BLOB, R_VecU8>> }

\* dict.get(key, default)
dict_get(dict, key, default) ==
    IF \E p \in dict : p[1] = key
    THEN (CHOOSE p \in dict : p[1] = key)[2]
    ELSE default

\* truth value of an optional integer: None and 0 are false
truthy(x) == x # None /\ x[1] # 0

IntWidthLimit == 10
FloatWidthLimit == 7

\* the mapper with `precision >= 10` in place of `precision > 10`
map_oracle_type_to_rust_ge(oracle_type, precision, scale) ==
    IF str_upper(oracle_type) = S_NUMBER
    THEN IF scale = Some(0)
         THEN IF precision = None \/ precision[1] >= IntWidthLimit
              THEN R_i64
              ELSE R_i32
         ELSE IF truthy(precision) /\ precision[1] <= FloatWidthLimit
              THEN R_f32
              ELSE R_f64
    ELSE dict_get(type_mapping, str_upper(oracle_type), R_String)

\* lines 103-112: NUMBER by precision and scale, else the table, else String
map_oracle_type_to_rust(oracle_type, precision, scale) ==
    IF str_upper(oracle_type) = S_NUMBER
    THEN IF scale = Some(0)
         THEN IF precision = None \/ precision[1] > IntWidthLimit
              THEN R_i64
              ELSE R_i32
         ELSE IF truthy(precision) /\ precision[1] <= FloatWidthLimit
              THEN R_f32
              ELSE R_f64
    ELSE dict_get(type_mapping, str_upper(oracle_type), R_String)

(***************************************************************************)
(* generate_rust_struct                                                    *)
(***************************************************************************)
T_Table == <<"/","/"," ","T","a","b","l","e",":"," ">>
T_derive ==
    <<"#","[","d","e","r","i","v","e","(","D","e","b","u","g",","," ",
      "C","l","o","n","e",","," ","S","e","r","i","a","l","i","z","e",","," ",
      "D","e","s","e","r","i","a","l","i","z","e",","," ",
      "R","o","w","V","a","l","u","e",")","]">>
T_pub_struct == <<"p","u","b"," ","s","t","r","u","c","t"," ">>
T_open == <<" ","{">>
T_pub == <<" "," "," "," ","p","u","b"," ">>
T_colon == <<":"," ">>
T_Option == <<"O","p","t","i","o","n","<">>

\* struct_name of generate_rust_struct
struct_name(table_name) ==
    LET words == str_split(str_lower(table_name), "_")
    IN str_join(<<>>, [i \in 1..Len(words) |-> str_capitalize(words[i])])

\* rust_type with `if nullable:` in place of `if nullable == "Y":`
rust_type_truthy(data_type, nullable) ==
    LET t == map_oracle_type_to_rust(data_type, None, None)
    IN IF nullable # "" THEN T_Option \o t \o <<">">> ELSE t

\* rust_type of one column: the mapper is called with the data type alone
rust_type(data_type, nullable) ==
    LET t == map_oracle_type_to_rust(data_type, None, None)
    IN IF nullable = "Y" THEN T_Option \o t \o <<">">> ELSE t

\* the line appended for one column (column_name, data_type, nullable)
field_line(column) ==
    T_pub \o str_lower(column[1]) \o T_colon
          \o rust_type(column[2], column[3]) \o <<",">>

\* the column loop over reversed(columns)
struct_fields_reversed(cols) ==
    [i \in 1..Len(cols) |-> field_line(cols[Len(cols) + 1 - i])]

\* the for loop over columns
struct_fields(cols) ==
    [i \in 1..Len(cols) |-> field_line(cols[i])]

generate_rust_struct(table_owner, table_name, cols) ==
    LET struct_lines ==
            << T_Table \o table_owner \o <<".">> \o table_name,
               T_derive,
               T_pub_struct \o struct_name(table_name) \o T_open >>
            \o struct_fields(cols)
            \o << <<"}">> >>
    IN str_join(<<"\n">>, struct_lines)


(***************************************************************************)
(* The catalog and its two queries                                         *)
(***************************************************************************)
IGNORED_SCHEMAS ==
    { <<"S","Y","S">>,
      <<"S","Y","S","T","E","M">>,
      <<"O","U","T","L","N">>,
      <<"D","B","S","N","M","P">>,
      <<"A","P","P","Q","O","S","S","Y","S">>,
      <<"C","T","X","S","Y","S">>,
      <<"D","V","S","Y","S">>,
      <<"F","L","O","W","S","_","F","I","L","E","S">>,
      <<"M","D","S","Y","S">>,
      <<"O","R","D","D","A","T","A">>,
      <<"O","R","D","S","Y","S">>,
      <<"X","D","B">>,
      <<"W","M","S","Y","S">>,
      <<"P","U","B","L","I","C">>,
      <<"A","U","D","S","Y","S">>,
      <<"G","S","M","A","D","M","I","N","_","I","N","T","E","R","N","A","L">>,
      <<"P","E","R","F","S","T","A","T">>,
      <<"O","J","V","M","S","Y","S">>,
      <<"E","X","P","_","I","N","F","O">> }

S_ORACLE == <<"O","R","A","C","L","E">>

\* the WHERE clause of USER_SCOPE_FOR_TABLES, on one row of all_tables
USER_SCOPE_FOR_TABLES(owner) ==
    /\ ~ str_contains(owner, S_ORACLE)
    /\ owner \notin IGNORED_SCHEMAS

N_APP == <<"A","P","P">>
N_HR == <<"H","R">>
N_SYS == <<"S","Y","S">>
N_ORDERS == <<"O","R","D","E","R","S">>
N_USER_ACCOUNTS == <<"U","S","E","R","_","A","C","C","O","U","N","T","S">>
N_DUAL == <<"D","U","A","L">>
N_ID == <<"I","D">>
N_TOTAL == <<"T","O","T","A","L">>
N_NOTE == <<"N","O","T","E">>
N_ACCOUNT_ID == <<"A","C","C","O","U","N","T","_","I","D">>
N_CREATED == <<"C","R","E","A","T","E","D">>
N_DUMMY == <<"D","U","M","M","Y">>

\* a row of all_tab_columns
Col(name, data_type, nullable, data_precision, data_scale) ==
    [column_name |-> name, data_type |-> data_type, nullable |-> nullable,
     data_precision |-> data_precision, data_scale |-> data_scale]

T_APP_ORDERS ==
    [owner |-> N_APP, table_name |-> N_ORDERS,
     cols |-> { Col(N_ID, S_NUMBER, "N", Some(10), Some(0)),
                Col(N_TOTAL, S_NUMBER, "N", Some(12), Some(2)),
                Col(N_NOTE, S_VARCHAR2, "Y", None, None) }]

T_HR_ORDERS ==
    [owner |-> N_HR, table_name |-> N_ORDERS,
     cols |-> { Col(N_ID, S_NUMBER, "N", Some(10), Some(0)) }]

T_APP_USER_ACCOUNTS ==
    [owner |-> N_APP, table_name |-> N_USER_ACCOUNTS,
     cols |-> { Col(N_ACCOUNT_ID, S_NUMBER, "N", Some(12), Some(0)),
                Col(N_CREATED, S_DATE, "Y", None, None) }]

T_SYS_DUAL ==
    [owner |-> N_SYS, table_name |-> N_DUAL,
     cols |-> { Col(N_DUMMY, S_VARCHAR2, "Y", None, None) }]

\* the tables a database may hold
Universe == {T_APP_ORDERS, T_HR_ORDERS, T_APP_USER_ACCOUNTS, T_SYS_DUAL}

MaxTables == 3
MaxRuns == 2

Catalogs == {c \in SUBSET Universe : Cardinality(c) <= MaxTables}

\* every order in which a query may return the rows of S (no ORDER BY)
Orders(S) ==
    {s \in [1..Cardinality(S) -> S] :
        \A i, j \in 1..Cardinality(S) : i # j => s[i] # s[j]}

\* the result set of USER_SCOPE_FOR_TABLES: rows (owner, table_name)
all_tables(db) ==
    {<<t.owner, t.table_name>> : t \in {u \in db : USER_SCOPE_FOR_TABLES(u.owner)}}

\* the result set of the query of fetch_columns:
\* rows (column_name, data_type, nullable)
all_tab_columns(db, table_owner, table_name) ==
    {<<c.column_name, c.data_type, c.nullable>> :
        c \in UNION {t.cols : t \in {u \in db : /\ u.owner = table_owner
                                               /\ u.table_name = table_name}}}

\* cursor.fetchall() after fetch_tables' execute: the rows in some order
fetch_tables(db) == Orders(all_tables(db))

\* cursor.fetchall() after fetch_columns' execute: the rows in some order
fetch_columns(db, table_owner, table_name) ==
    Orders(all_tab_columns(db, table_owner, table_name))

(***************************************************************************)
(* save_rust_structs, connect_to_oracle_db and the control flow            *)
(***************************************************************************)
\* save_rust_structs with open(..., "a") in place of open(..., "w")
save_rust_structs_append(old, structs) ==
    (IF old = None THEN <<>> ELSE old[1])
        \o str_join(<<"\n", "\n">>, structs) \o <<"\n">>

\* the text of db_structs.rs after open(..., "w") and the two writes
save_rust_structs(old, structs) ==
    str_join(<<"\n", "\n">>, structs) \o <<"\n">>

\* what connect_to_oracle_db does with the outcome of oracledb.connect
connect_to_oracle_db(outcome) ==
    IF outcome = "connected"
    THEN [value |-> Some("Connection"), raised |-> None]
    ELSE IF outcome = "DatabaseError"
    THEN [value |-> None, raised |-> None]
    ELSE [value |-> None, raised |-> Some([type |-> outcome, site |-> "connect"])]

ConnectOutcomes == {"connected", "DatabaseError", "InterfaceError"}

\* __main__ without the `if conn is None` check
main_unchecked(c) == "L117"

\* __main__ after the call: exit(...) when conn is None
main(c) == IF c = None THEN "exited" ELSE "L117"

\* create_rust_structs with the loop in a try whose handler goes on to save
on_exception_saving(site) == IF site = "fetch_columns" THEN "L140" ELSE "raised"

\* create_rust_structs and __main__ hold no try: an exception ends the process
on_exception(site) == "raised"

\* rust_structs.insert(0, rust_struct) in place of append
list_prepend(l, x) == <<x>> \o l

\* list.append
list_append(l, x) == Append(l, x)

Terminated == pc \in {"returned", "exited", "raised"}

(***************************************************************************)
(* The process                                                             *)
(***************************************************************************)
Init ==
    /\ pc = "L147"
    /\ run = 1
    /\ catalog \in Catalogs
    /\ conn = None
    /\ connects = 0
    /\ exc = None
    /\ exit_status = None
    /\ diagnostic = <<>>
    /\ queries = <<>>
    /\ tables = <<>>
    /\ idx = 0
    /\ columns = <<>>
    /\ fetched = <<>>
    /\ rust_structs = <<>>
    /\ file = None
    /\ writes = 0
    /\ history = None
    /\ call = None
    /\ ret = None

\* the frame of create_rust_structs is gone
DropLocals ==
    /\ tables' = <<>>
    /\ idx' = 0
    /\ columns' = <<>>
    /\ fetched' = <<>>
    /\ rust_structs' = <<>>

\* an exception raised at site: it propagates, and an uncaught exception ends
\* the process with a traceback and status 1
Raise(e) ==
    /\ exc' = Some(e)
    /\ pc' = on_exception(e.site)
    /\ IF on_exception(e.site) = "raised"
       THEN /\ exit_status' = Some(1)
            /\ diagnostic' = Append(diagnostic, "Traceback")
            /\ DropLocals
       ELSE UNCHANGED <<exit_status, diagnostic, tables, idx, columns,
                        fetched, rust_structs>>

\* conn = connect_to_oracle_db(); if conn is None: ...; exit(...)
Connect ==
    /\ pc = "L147"
    /\ \E outcome \in ConnectOutcomes :
        LET r == connect_to_oracle_db(outcome) IN
        /\ connects' = connects + 1
        /\ conn' = r.value
        /\ IF r.raised # None
           THEN Raise(r.raised[1])
           ELSE /\ pc' = main(r.value)
                /\ exc' = None
                /\ IF main(r.value) = "exited"
                   THEN /\ exit_status' = Some(1)
                        /\ diagnostic' = diagnostic \o
                             << "There was a problem connecting to the database",
                                "Please check the connection details in the .env file" >>
                   ELSE UNCHANGED <<exit_status, diagnostic>>
                /\ UNCHANGED <<tables, idx, columns, fetched, rust_structs>>
    /\ UNCHANGED <<run, catalog, queries, file, writes, history, call, ret>>

\* cursor = conn.cursor(); tables = fetch_tables(cursor); rust_structs = []
FetchTables ==
    /\ pc = "L117"
    /\ IF conn = None
       THEN /\ Raise([type |-> "AttributeError", site |-> "cursor"])
            /\ UNCHANGED queries
       ELSE /\ queries' = Append(queries, <<"all_tables">>)
            /\ \E rows \in fetch_tables(catalog) :
                /\ tables' = rows
                /\ idx' = IF Len(rows) > 0 THEN 1 ELSE 0
                /\ pc' = IF Len(rows) > 0 THEN "L136" ELSE "L140"
            /\ rust_structs' = <<>>
            /\ UNCHANGED <<exc, exit_status, diagnostic, columns, fetched>>
    /\ UNCHANGED <<run, catalog, conn, connects, file, writes, history, call, ret>>

\* the execute of fetch_tables raises
FetchTablesFails ==
    /\ pc = "L117"
    /\ conn # None
    /\ queries' = Append(queries, <<"all_tables">>)
    /\ Raise([type |-> "DatabaseError", site |-> "fetch_tables"])
    /\ UNCHANGED <<run, catalog, conn, connects, file, writes, history, call, ret>>

\* columns = fetch_columns(cursor, table_owner, table_name)
FetchColumns ==
    /\ pc = "L136"
    /\ queries' = Append(queries, <<"all_tab_columns", tables[idx][1], tables[idx][2]>>)
    /\ \E rows \in fetch_columns(catalog, tables[idx][1], tables[idx][2]) :
        columns' = rows
    /\ pc' = "L137"
    /\ UNCHANGED <<run, catalog, conn, connects, exc, exit_status, diagnostic,
                   tables, idx, fetched, rust_structs, file, writes, history,
                   call, ret>>

\* the execute of fetch_columns raises
FetchColumnsFails ==
    /\ pc = "L136"
    /\ queries' = Append(queries, <<"all_tab_columns", tables[idx][1], tables[idx][2]>>)
    /\ Raise([type |-> "DatabaseError", site |-> "fetch_columns"])
    /\ UNCHANGED <<run, catalog, conn, connects, file, writes, history, call, ret>>

\* rust_struct = generate_rust_struct(...); rust_structs.append(rust_struct);
\* then the next table, or the end of the loop
Render ==
    /\ pc = "L137"
    /\ rust_structs' = list_append(rust_structs,
            generate_rust_struct(tables[idx][1], tables[idx][2], columns))
    /\ fetched' = Append(fetched, columns)
    /\ IF idx < Len(tables)
       THEN /\ idx' = idx + 1
            /\ pc' = "L136"
       ELSE /\ idx' = idx
            /\ pc' = "L140"
    /\ UNCHANGED <<run, catalog, conn, connects, exc, exit_status, diagnostic,
                   queries, tables, columns, file, writes, history, call, ret>>

\* save_rust_structs(rust_structs), and the process ends
Save ==
    /\ pc = "L140"
    /\ file' = Some(save_rust_structs(file, rust_structs))
    /\ writes' = writes + 1
    /\ pc' = "returned"
    /\ exit_status' = Some(0)
    /\ UNCHANGED <<run, catalog, conn, connects, exc, diagnostic, queries,
                   tables, idx, columns, fetched, rust_structs, history,
                   call, ret>>

\* the program is started again, against the same database and directory
StartRun ==
    /\ Terminated
    /\ run < MaxRuns
    /\ run' = run + 1
    /\ history' = IF pc = "returned"
                  THEN Some([tables |-> tables, fetched |-> fetched,
                             output |-> file[1]])
                  ELSE history
    /\ pc' = "L147"
    /\ conn' = None
    /\ connects' = 0
    /\ exc' = None
    /\ exit_status' = None
    /\ diagnostic' = <<>>
    /\ queries' = <<>>
    /\ DropLocals
    /\ writes' = 0
    /\ UNCHANGED <<catalog, file, call, ret>>

Next ==
    \/ Connect
    \/ FetchTables
    \/ FetchTablesFails
    \/ FetchColumns
    \/ FetchColumnsFails
    \/ Render
    \/ Save
    \/ StartRun

Spec == Init /\ [][Next]_vars

(***************************************************************************)
(* Direct calls of the pure functions                                      *)
(***************************************************************************)
S_number == <<"n","u","m","b","e","r">>
S_Number == <<"N","u","m","b","e","r">>
S_varchar2 == <<"v","a","r","c","h","a","r","2">>
S_XMLTYPE == <<"X","M","L","T","Y","P","E">>
N_Note == <<"N","o","t","e">>
N_user_accounts == <<"u","s","e","r","_","a","c","c","o","u","n","t","s">>

MaxPrecision == 12
MaxScale == 2
MaxCols == 2

OracleTypes == {S_NUMBER, S_number, S_Number, S_VARCHAR2, S_DATE, S_BLOB, S_XMLTYPE}
Precisions == {None} \cup {Some(p) : p \in (0 - 1)..MaxPrecision}
Scales == {None} \cup {Some(s) : s \in (0 - 1)..MaxScale}

Idle ==
    /\ run = 1
    /\ catalog = {}
    /\ conn = None
    /\ connects = 0
    /\ exc = None
    /\ exit_status = None
    /\ diagnostic = <<>>
    /\ queries = <<>>
    /\ tables = <<>>
    /\ idx = 0
    /\ columns = <<>>
    /\ fetched = <<>>
    /\ rust_structs = <<>>
    /\ file = None
    /\ writes = 0
    /\ history = None

InitMap ==
    /\ Idle
    /\ pc = "call"
    /\ call \in [oracle_type : OracleTypes, precision : Precisions, scale : Scales]
    /\ ret = None

\* map_oracle_type_to_rust(oracle_type, precision, scale)
CallMap ==
    /\ pc = "call"
    /\ pc' = "ret"
    /\ ret' = Some(map_oracle_type_to_rust(call.oracle_type, call.precision, call.scale))
    /\ UNCHANGED <<run, catalog, conn, connects, exc, exit_status, diagnostic,
                   queries, tables, idx, columns, fetched, rust_structs, file,
                   writes, history, call>>

SpecMap == InitMap /\ [][CallMap]_vars

\* the rows fetch_columns may hand to generate_rust_struct
ColumnRows ==
    {<<n, t, f>> : n \in {N_ID, N_Note}, t \in {S_NUMBER, S_varchar2, S_XMLTYPE},
                   f \in {"Y", "N", "y"}}

ColumnSeqs == UNION {[1..n -> ColumnRows] : n \in 0..MaxCols}

InitRender ==
    /\ Idle
    /\ pc = "call"
    /\ call \in [table_owner : {N_APP}, table_name : {N_ORDERS, N_user_accounts},
                 columns : ColumnSeqs]
    /\ ret = None

\* generate_rust_struct(table_owner, table_name, columns)
CallRender ==
    /\ pc = "call"
    /\ pc' = "ret"
    /\ ret' = Some(generate_rust_struct(call.table_owner, call.table_name, call.columns))
    /\ UNCHANGED <<run, catalog, conn, connects, exc, exit_status, diagnostic,
                   queries, tables, idx, columns, fetched, rust_structs, file,
                   writes, history, call>>

SpecRender == InitRender /\ [][CallRender]_vars

(***************************************************************************)
(* Reading a rendered block back                                           *)
(***************************************************************************)
BlockLines(block) == str_split(block, "\n")

\* the lines between the "pub struct" line and the closing brace
FieldLines(block) ==
    LET l == BlockLines(block) IN SubSeq(l, 4, Len(l) - 1)

StartsWith(s, prefix) ==
    Len(s) >= Len(prefix) /\ SubSeq(s, 1, Len(prefix)) = prefix

\* position of the first ":" of a line (0 when there is none)
ColonAt(line) ==
    IF \E i \in 1..Len(line) : line[i] = ":"
    THEN CHOOSE i \in 1..Len(line) :
            line[i] = ":" /\ \A j \in 1..(i - 1) : line[j] # ":"
    ELSE 0

\* "    pub <name>: <type>,"
FieldName(line) == SubSeq(line, Len(T_pub) + 1, ColonAt(line) - 1)
FieldType(line) == SubSeq(line, ColonAt(line) + 2, Len(line) - 1)

\* "pub struct <name> {"
DeclaredName(block) ==
    LET l == BlockLines(block)[3]
    IN SubSeq(l, Len(T_pub_struct) + 1, Len(l) - Len(T_open))

(***************************************************************************)
(* Properties                                                              *)
(***************************************************************************)
ColumnQueries == IF Len(queries) = 0 THEN <<>> ELSE Tail(queries)

\* the content of db_structs.rs when this invocation started
FileAtStart == IF history = None THEN None ELSE Some(history[1].output)

\* C1: when fetch_columns raises for a table, the error reaches the caller
\* (the process ends on the uncaught exception), the failed query is the last
\* one of the run, the blocks rendered so far are gone, and db_structs.rs is
\* not written: it holds what it held when the run started.
C1_ColumnFetchFailureAborts ==
    (exc # None /\ exc[1].site = "fetch_columns") =>
        /\ pc = "raised"
        /\ exc[1].type = "DatabaseError"
        /\ exit_status = Some(1)
        /\ Last(queries)[1] = "all_tab_columns"
        /\ rust_structs = <<>>
        /\ writes = 0
        /\ file = FileAtStart

\* a run that failed at its second or third table, after an earlier run wrote
C1_Witness ==
    /\ exc # None
    /\ exc[1].site = "fetch_columns"
    /\ pc = "raised"
    /\ Len(queries) >= 3
    /\ run = 2
    /\ file # None

\* C2: the blocks are rendered one table at a time in the order of
\* fetch_tables: the k-th column query is for the k-th table, a block is
\* appended only after its table's columns were fetched and before the next
\* table is queried, and a run that completes hands save_rust_structs exactly
\* one block per table, the i-th block being the rendering of the i-th table.
C2_OneBlockPerTableInOrder ==
    /\ pc \in {"L136", "L137", "L140", "returned"} =>
        /\ Len(fetched) = Len(rust_structs)
        /\ Len(ColumnQueries) = Len(rust_structs) + (IF pc = "L137" THEN 1 ELSE 0)
        /\ Len(ColumnQueries) <= Len(tables)
        /\ \A i \in 1..Len(ColumnQueries) :
              ColumnQueries[i] = <<"all_tab_columns", tables[i][1], tables[i][2]>>
        /\ \A i \in 1..Len(rust_structs) :
              StartsWith(rust_structs[i],
                  T_Table \o tables[i][1] \o <<".">> \o tables[i][2] \o <<"\n">>)
    /\ pc \in {"L140", "returned"} =>
        /\ Len(rust_structs) = Len(tables)
        /\ \A i \in 1..Len(tables) :
              rust_structs[i]
                  = generate_rust_struct(tables[i][1], tables[i][2], fetched[i])
        /\ {tables[i] : i \in 1..Len(tables)} = all_tables(catalog)
        /\ Len(tables) = Cardinality(all_tables(catalog))

\* a completed run over three tables
C2_Witness ==
    /\ pc = "returned"
    /\ Len(tables) = 3
    /\ Len(rust_structs) = 3

N_id == <<"i","d">>
N_total == <<"t","o","t","a","l">>
N_note == <<"n","o","t","e">>
N_Orders == <<"O","r","d","e","r","s">>

\* C3: the block rendered for APP.ORDERS with columns (ID NUMBER(10,0) not
\* null, TOTAL NUMBER(12,2) not null, NOTE VARCHAR2 null), fetched in that
\* order, declares struct Orders with id: i32, total: f64, note: Option<String>.
C3_OrdersScenario ==
    \A i \in 1..Len(rust_structs) :
        ( /\ T_APP_ORDERS \in catalog
          /\ tables[i] = <<N_APP, N_ORDERS>>
          /\ fetched[i] = << <<N_ID, S_NUMBER, "N">>, <<N_TOTAL, S_NUMBER, "N">>,
                             <<N_NOTE, S_VARCHAR2, "Y">> >> )
        => /\ DeclaredName(rust_structs[i]) = N_Orders
           /\ FieldLines(rust_structs[i])
                = << T_pub \o N_id \o T_colon \o R_i32 \o <<",">>,
                     T_pub \o N_total \o T_colon \o R_f64 \o <<",">>,
                     T_pub \o N_note \o T_colon \o T_Option \o R_String
                           \o <<">", ",">> >>

IsNumberCall == pc = "ret" /\ str_upper(call.oracle_type) = S_NUMBER

\* C4 as stated: NUMBER with scale 0 maps to i32 when precision is absent or
\* <= 10, and to i64 when precision > 10.
C4_Original ==
    (IsNumberCall /\ call.scale = Some(0)) =>
        /\ (call.precision = None \/ call.precision[1] <= 10) => ret = Some(R_i32)
        /\ (call.precision # None /\ call.precision[1] > 10) => ret = Some(R_i64)

\* C4 amended: NUMBER (any letter case) with scale 0 maps to i32 for every
\* integer precision <= 10, and to i64 when precision is absent or > 10.
C4_IntegerWidth ==
    (IsNumberCall /\ call.scale = Some(0)) =>
        /\ (call.precision # None /\ call.precision[1] <= 10) => ret = Some(R_i32)
        /\ (call.precision = None \/ call.precision[1] > 10) => ret = Some(R_i64)

\* number (lower case), scale 0, precision absent: the wide integer
C4_Witness ==
    /\ IsNumberCall
    /\ call.oracle_type = S_number
    /\ call.scale = Some(0)
    /\ call.precision = None
    /\ ret = Some(R_i64)

\* C5: NUMBER with scale other than 0 maps to f32 for every integer
\* precision <= 7, 0 included, and to f64 for precision > 7 or absent.
C5_FloatWidth ==
    (IsNumberCall /\ call.scale # Some(0)) =>
        /\ (call.precision # None /\ call.precision[1] <= 7) => ret = Some(R_f32)
        /\ (call.precision = None \/ call.precision[1] > 7) => ret = Some(R_f64)

\* C6: two distinct tables of one run get distinct struct names.
C6_DistinctStructNames ==
    \A i, j \in 1..Len(rust_structs) :
        (i # j /\ tables[i] # tables[j]) =>
            DeclaredName(rust_structs[i]) # DeclaredName(rust_structs[j])

\* C7 as stated: a run that completes after an earlier completed run, the
\* database unchanged, writes the text the earlier run wrote.
C7_Original ==
    (pc = "returned" /\ history # None) => file = Some(history[1].output)

\* C7 amended: a run that completes after an earlier completed run, the
\* database unchanged, writes the text the earlier run wrote whenever
\* fetch_tables and every fetch_columns returned their rows in the same order
\* in both runs.
C7_SameOrderSameOutput ==
    ( /\ pc = "returned"
      /\ history # None
      /\ history[1].tables = tables
      /\ history[1].fetched = fetched )
    => file = Some(history[1].output)

\* a second completed run over at least two tables, in the order of the first
C7_Witness ==
    /\ pc = "returned"
    /\ history # None
    /\ Len(tables) >= 2
    /\ history[1].tables = tables
    /\ history[1].fetched = fetched
    /\ file = Some(history[1].output)

\* C8: the block has one field line per column, and the i-th field line
\* names the i-th column, lower-cased; no columns, no field lines.
C8_FieldOrderAndCount ==
    (pc = "ret") =>
        LET fl == FieldLines(ret[1]) IN
        /\ Len(fl) = Len(call.columns)
        /\ Len(BlockLines(ret[1])) = Len(call.columns) + 4
        /\ \A i \in 1..Len(fl) :
              /\ StartsWith(fl[i], T_pub)
              /\ FieldName(fl[i]) = str_lower(call.columns[i][1])

\* two columns of different names, rendered in their order
C8_Witness ==
    /\ pc = "ret"
    /\ Len(call.columns) = 2
    /\ call.columns[1][1] = N_Note
    /\ call.columns[2][1] = N_ID
    /\ FieldName(FieldLines(ret[1])[1]) = N_note
    /\ FieldName(FieldLines(ret[1])[2]) = N_id

\* C9: the type of a field is Option<T> when the nullable flag is "Y" and T
\* for any other flag, T being what the mapper returns for the column's type.
C9_NullableWrap ==
    (pc = "ret") =>
        LET fl == FieldLines(ret[1]) IN
        \A i \in 1..Len(call.columns) :
            LET T == map_oracle_type_to_rust(call.columns[i][2], None, None)
            IN FieldType(fl[i]) = IF call.columns[i][3] = "Y"
                                  THEN T_Option \o T \o <<">">>
                                  ELSE T

\* a nullable column beside columns flagged "N" and "y"
C9_Witness ==
    /\ pc = "ret"
    /\ Len(call.columns) = 2
    /\ call.columns[1][3] = "Y"
    /\ call.columns[2][3] = "y"
    /\ FieldType(FieldLines(ret[1])[1]) = T_Option \o R_f64 \o <<">">>
    /\ FieldType(FieldLines(ret[1])[2]) = R_String

\* C10: when the connection cannot be established the process has ended with
\* status 1 and a diagnostic, after one connection attempt, with no catalog
\* query issued and db_structs.rs not written.
C10_ConnectionFailureExits ==
    (connects >= 1 /\ conn = None) =>
        /\ pc \in {"exited", "raised"}
        /\ exit_status = Some(1)
        /\ diagnostic # <<>>
        /\ connects = 1
        /\ queries = <<>>
        /\ writes = 0
        /\ file = FileAtStart

\* connect_to_oracle_db returned None and the process exited
C10_Witness ==
    /\ pc = "exited"
    /\ connects = 1
    /\ conn = None
    /\ exc = None
    /\ exit_status = Some(1)

=============================================================================
